---------------------------- MODULE Spec2Model ----------------------------
(***************************************************************************)
(* Model of the IMQS/modbusd Modbus client: the address translator, the   *)
(* request encoder, the three variant codecs (ModbusTCP, RTU, ASCII), the *)
(* shared decoder state machine ProtocolBase.Recover, and the client      *)
(* engine (Client.Request / Read / do) over a shared TCP transport.       *)
(*                                                                         *)
(* Byte slices are sequences over 0..255.  A nil slice and an empty slice *)
(* are both the empty sequence: the code only ever distinguishes them in  *)
(* ADU.Bytes, where either contributes no byte.                           *)
(***************************************************************************)
EXTENDS Integers, Sequences, FiniteSets, TLC

(***************************************************************************)
(* Wire constants                                                          *)
(***************************************************************************)
LSID == 1
LFNC == 1
LCRC == 2
LMBAP == 7
LTID == 2
LPID == 2
LLEN == 2
LSOF == 1
LEOF == 2
LLRC == 1
COLON == 58
CR == 13
LF == 10
ModbusTCPProtocolId == 0

RDCO == 1
RDDI == 2
RDHR == 3
RDIR == 4
RSID == 17
FERR == 128

RETRIES == 5

(***************************************************************************)
(* Fixed-width arithmetic                                                  *)
(***************************************************************************)
U8(n) == n % 256

U16(n) == n % 65536

\* bit k of a xor b, in place, for k a power of two
XorBit(a, b, k) == (((a \div k) + (b \div k)) % 2) * k

\* a xor b for 16-bit operands
Xor(a, b) ==
    (((XorBit(a, b, 1) + XorBit(a, b, 2)) + (XorBit(a, b, 4) + XorBit(a, b, 8)))
     + ((XorBit(a, b, 16) + XorBit(a, b, 32)) + (XorBit(a, b, 64) + XorBit(a, b, 128))))
    + (((XorBit(a, b, 256) + XorBit(a, b, 512)) + (XorBit(a, b, 1024) + XorBit(a, b, 2048)))
       + ((XorBit(a, b, 4096) + XorBit(a, b, 8192)) + (XorBit(a, b, 16384) + XorBit(a, b, 32768))))

\* binary.BigEndian.Uint16(b[off:]): off counts from 0; the caller checks bounds
Uint16At(b, off) == b[off + 1] * 256 + b[off + 2]

\* binary.BigEndian.PutUint16 as the two bytes it stores
BE16(v) == << (v \div 256) % 256, v % 256 >>

\* b with the bytes of s stored at offsets off, off+1, ... (off counts from 0)
StoreAt(b, off, s) ==
    [i \in 1..Len(b) |-> IF i > off /\ i <= off + Len(s) THEN s[i - off] ELSE b[i]]

(***************************************************************************)
(* CRC-16: polynomial 0xA001, initial value 0xFFFF, no final xor.         *)
(***************************************************************************)
CRCPoly == 40961

CRCInit == 65535

\* one shift of the register: the low bit decides whether the polynomial is xored in
CRCShift(crc) == IF crc % 2 = 1 THEN Xor(crc \div 2, CRCPoly) ELSE crc \div 2

\* the register after one more byte
CRCByte(crc, byte) ==
    LET s0 == Xor(crc, byte)
        s1 == CRCShift(s0)
        s2 == CRCShift(s1)
        s3 == CRCShift(s2)
        s4 == CRCShift(s3)
        s5 == CRCShift(s4)
        s6 == CRCShift(s5)
        s7 == CRCShift(s6)
    IN  CRCShift(s7)

\* the register after the bytes lo..hi of b, taken in order: the first half
\* of the range is folded in, and its register value computed, before the
\* second half is taken
RECURSIVE CRCRange(_, _, _, _)
CRCRange(crc, b, lo, hi) ==
    IF lo > hi THEN crc
    ELSE IF lo = hi THEN CRCByte(crc, b[lo])
    ELSE LET mid == (lo + hi) \div 2
             left == CRCRange(crc, b, lo, mid)
         IN  IF left >= 0 THEN CRCRange(left, b, mid + 1, hi) ELSE left

\* the register after the bytes of b from index i on
CRCFrom(crc, b, i) == CRCRange(crc, b, i, Len(b))

\* crc.reset().calculate(b) followed by crc.value()
CRC16(b) == CRCFrom(CRCInit, b, 1)

(***************************************************************************)
(* PDU and ADU                                                             *)
(***************************************************************************)
NewPDU(fncode) == [FnCode |-> << fncode >>, Data |-> << >>]

\* NewADU(pdu); NewADU(nil) is NewADUNil
NewADU(pdu) ==
    [SOF |-> << >>, Hdr |-> << >>,
     TransactionId |-> 0, ProtocolId |-> 0, Length |-> 0, SlaveId |-> 0,
     Err |-> << >>, CRC |-> 0,
     ExceptionCode |-> 0, Exception |-> "",
     Timeout |-> FALSE,
     FnCode |-> pdu.FnCode, Data |-> pdu.Data,
     EOF |-> << >>]

NewADUNil == NewADU(NewPDU(FERR))

\* ADU.Bytes: SOF, Hdr, FnCode, Data, Err, EOF in this order
Bytes(d) == d.SOF \o d.Hdr \o d.FnCode \o d.Data \o d.Err \o d.EOF

\* (mutant) ErrorCRC storing the low byte of the CRC first
ErrorCRCLowFirst(d) ==
    LET d0 == [d EXCEPT !.Err = << >>]
        crc == CRC16(Bytes(d0))
    IN  [d0 EXCEPT !.CRC = crc, !.Err = << U8(crc), U8(crc \div 256) >>]

ErrorCRC(d) ==
    LET d0 == [d EXCEPT !.Err = << >>]
        crc == CRC16(Bytes(d0))
    IN  [d0 EXCEPT !.CRC = crc, !.Err = << U8(crc \div 256), U8(crc) >>]

\* ErrorLRC clears Err, serializes, and stores nothing
ErrorLRC(d) == [d EXCEPT !.Err = << >>]

(***************************************************************************)
(* Address translator                                                      *)
(***************************************************************************)
\* (mutant) Relative with the function codes of the two register ranges swapped
RelativeSwapped(absolute) ==
    IF absolute >= 0 /\ absolute <= 65535
      THEN [fncode |-> RDCO, address |-> absolute, err |-> FALSE]
    ELSE IF absolute >= 100000 /\ absolute <= 165535
      THEN [fncode |-> RDDI, address |-> absolute - 100000, err |-> FALSE]
    ELSE IF absolute >= 300000 /\ absolute <= 365535
      THEN [fncode |-> RDHR, address |-> absolute - 300000, err |-> FALSE]
    ELSE IF absolute >= 400000 /\ absolute <= 465535
      THEN [fncode |-> RDIR, address |-> absolute - 400000, err |-> FALSE]
    ELSE [fncode |-> FERR, address |-> absolute, err |-> TRUE]

\* (mutant) Relative with the last holding register left out of its range
RelativeOffBy(absolute) ==
    IF absolute >= 0 /\ absolute <= 65535
      THEN [fncode |-> RDCO, address |-> absolute, err |-> FALSE]
    ELSE IF absolute >= 100000 /\ absolute <= 165535
      THEN [fncode |-> RDDI, address |-> absolute - 100000, err |-> FALSE]
    ELSE IF absolute >= 300000 /\ absolute <= 365535
      THEN [fncode |-> RDIR, address |-> absolute - 300000, err |-> FALSE]
    ELSE IF absolute >= 400000 /\ absolute < 465535
      THEN [fncode |-> RDHR, address |-> absolute - 400000, err |-> FALSE]
    ELSE [fncode |-> FERR, address |-> absolute, err |-> TRUE]

\* Relative(absolute, &fncode): the function code, the returned address, the error
Relative(absolute) ==
    IF absolute >= 0 /\ absolute <= 65535
      THEN [fncode |-> RDCO, address |-> absolute, err |-> FALSE]
    ELSE IF absolute >= 100000 /\ absolute <= 165535
      THEN [fncode |-> RDDI, address |-> absolute - 100000, err |-> FALSE]
    ELSE IF absolute >= 300000 /\ absolute <= 365535
      THEN [fncode |-> RDIR, address |-> absolute - 300000, err |-> FALSE]
    ELSE IF absolute >= 400000 /\ absolute <= 465535
      THEN [fncode |-> RDHR, address |-> absolute - 400000, err |-> FALSE]
    ELSE [fncode |-> FERR, address |-> absolute, err |-> TRUE]

Absolute(fncode, relative) ==
    IF fncode = RDCO THEN [address |-> relative, err |-> FALSE]
    ELSE IF fncode = RDDI THEN [address |-> relative + 100000, err |-> FALSE]
    ELSE IF fncode = RDIR THEN [address |-> relative + 300000, err |-> FALSE]
    ELSE IF fncode = RDHR THEN [address |-> relative + 400000, err |-> FALSE]
    ELSE [address |-> relative, err |-> TRUE]

(***************************************************************************)
(* Request                                                                 *)
(***************************************************************************)
\* NewRequest(fncode, adr, qty): the function code passed in is overwritten
\* by Relative; the address is truncated to uint16
NewRequest(absolute, qty) ==
    LET r == Relative(absolute)
    IN  IF r.err THEN [err |-> TRUE, FnCode |-> r.fncode, Address |-> 0, Quantity |-> 0]
        ELSE [err |-> FALSE, FnCode |-> r.fncode, Address |-> U16(r.address), Quantity |-> qty]

\* (mutant) Request.Encode writing the quantity before the address
RequestEncodeQuantityFirst(r) ==
    IF r.FnCode = RSID
      THEN [err |-> FALSE, pdu |-> [FnCode |-> << r.FnCode >>, Data |-> << >>]]
    ELSE IF r.FnCode \in {RDCO, RDDI, RDHR, RDIR}
      THEN [err |-> FALSE,
            pdu |-> [FnCode |-> << r.FnCode >>, Data |-> BE16(r.Quantity) \o BE16(r.Address)]]
    ELSE [err |-> TRUE, pdu |-> [FnCode |-> << >>, Data |-> << >>]]

\* Request.Encode
RequestEncode(r) ==
    IF r.FnCode = RSID
      THEN [err |-> FALSE, pdu |-> [FnCode |-> << r.FnCode >>, Data |-> << >>]]
    ELSE IF r.FnCode \in {RDCO, RDDI, RDHR, RDIR}
      THEN [err |-> FALSE,
            pdu |-> [FnCode |-> << r.FnCode >>, Data |-> BE16(r.Address) \o BE16(r.Quantity)]]
    ELSE [err |-> TRUE, pdu |-> [FnCode |-> << >>, Data |-> << >>]]

(***************************************************************************)
(* Variant encoders                                                        *)
(***************************************************************************)
\* (mutant) ModbusTCP.Encode incrementing the counter before writing it
ModbusTCPEncodeIncFirst(tid, slaveid, pdu) ==
    LET a0 == NewADU(pdu)
        len == U16(LSID + LFNC + Len(pdu.Data))
        hdr == BE16(U16(tid + 1)) \o BE16(ModbusTCPProtocolId) \o BE16(len) \o << slaveid >>
    IN  [tid |-> U16(tid + 1),
         err |-> len <= 0,
         adu |-> [a0 EXCEPT !.TransactionId = U16(tid + 1), !.ProtocolId = ModbusTCPProtocolId,
                            !.Length = len, !.SlaveId = slaveid, !.Hdr = hdr]]

\* (mutant) ModbusTCP.Encode leaving the slave id out of the length
ModbusTCPEncodeNoSlaveInLength(tid, slaveid, pdu) ==
    LET a0 == NewADU(pdu)
        len == U16(LFNC + Len(pdu.Data))
        hdr == BE16(tid) \o BE16(ModbusTCPProtocolId) \o BE16(len) \o << slaveid >>
    IN  [tid |-> U16(tid + 1),
         err |-> len <= 0,
         adu |-> [a0 EXCEPT !.TransactionId = tid, !.ProtocolId = ModbusTCPProtocolId,
                            !.Length = len, !.SlaveId = slaveid, !.Hdr = hdr]]

\* ModbusTCP.Encode: the ADU and the codec's TransactionId after the call
ModbusTCPEncode(tid, slaveid, pdu) ==
    LET a0 == NewADU(pdu)
        len == U16(LSID + LFNC + Len(pdu.Data))
        hdr == BE16(tid) \o BE16(ModbusTCPProtocolId) \o BE16(len) \o << slaveid >>
    IN  [tid |-> U16(tid + 1),
         err |-> len <= 0,
         adu |-> [a0 EXCEPT !.TransactionId = tid, !.ProtocolId = ModbusTCPProtocolId,
                            !.Length = len, !.SlaveId = slaveid, !.Hdr = hdr]]

\* RTU.Encode
RTUEncode(slaveid, pdu) ==
    [err |-> FALSE,
     adu |-> ErrorCRC([NewADU(pdu) EXCEPT !.Hdr = << slaveid >>, !.SlaveId = slaveid])]

\* one upper-case hexadecimal digit as its ASCII code
HexChar(n) == IF n < 10 THEN 48 + n ELSE 55 + n

\* ASCII.toASCII: fmt.Sprintf("%X", bin), two characters per byte
RECURSIVE toASCII(_)
toASCII(bin) ==
    IF bin = << >> THEN << >>
    ELSE << HexChar(Head(bin) \div 16), HexChar(Head(bin) % 16) >> \o toASCII(Tail(bin))

\* the value of one hexadecimal character, or -1
HexVal(ch) ==
    IF ch >= 48 /\ ch <= 57 THEN ch - 48
    ELSE IF ch >= 65 /\ ch <= 70 THEN ch - 55
    ELSE IF ch >= 97 /\ ch <= 102 THEN ch - 87
    ELSE -1

RECURSIVE HexBytes(_)
HexBytes(text) ==
    IF text = << >> THEN << >>
    ELSE << HexVal(text[1]) * 16 + HexVal(text[2]) >> \o HexBytes(SubSeq(text, 3, Len(text)))

\* ASCII.toHex: hex.DecodeString
toHex(text) ==
    IF Len(text) % 2 = 1 \/ \E i \in 1..Len(text) : HexVal(text[i]) < 0
      THEN [err |-> TRUE, bin |-> << >>]
    ELSE [err |-> FALSE, bin |-> HexBytes(text)]

\* ASCII.Encode
ASCIIEncode(slaveid, pdu) ==
    LET a0 == NewADU(pdu)
        a1 == [a0 EXCEPT !.SOF = toASCII(<< COLON >>),
                         !.SlaveId = slaveid,
                         !.Hdr = toASCII(<< slaveid >>),
                         !.FnCode = toASCII(a0.FnCode),
                         !.Data = toASCII(a0.Data)]
        a2 == ErrorLRC(a1)
    IN  [err |-> FALSE,
         adu |-> [a2 EXCEPT !.Err = toASCII(a2.Err), !.EOF = toASCII(<< CR, LF >>)]]

(***************************************************************************)
(* Exception table                                                         *)
(***************************************************************************)
KnownExCodes == {0, 1, 2, 3, 4, 5, 6, 8, 10, 11}

Exception(code) ==
    CASE code = 1 -> "Illegal function code"
      [] code = 2 -> "Illegal data address"
      [] code = 3 -> "Illegal data value"
      [] code = 4 -> "Server device failure"
      [] code = 5 -> "Acknowledge"
      [] code = 6 -> "Server device busy"
      [] code = 8 -> "Memory parity error"
      [] code = 10 -> "Gateway path unavailable"
      [] code = 11 -> "Gateway target device failed to respond"
      [] OTHER -> ""

(***************************************************************************)
(* ProtocolBase.Recover: the decoder state machine.                        *)
(*                                                                         *)
(* A machine configuration m holds Recover's locals: the input response,   *)
(* start, section, state, element, the 8-bit cursor cnt and the ADU being  *)
(* filled.  loop says which for-loop the control is at the top of: the     *)
(* state loop or the section loop of Recover, or the element loop of       *)
(* handleMBAP or handlePDU.  ret is "run" while Recover runs, and then how *)
(* it ended: "adu" (return adu, nil), "err" (return nil, error) or "panic" *)
(* (a Go run-time panic: index out of range, nil dereference).             *)
(***************************************************************************)
RecoverInit(response, section) ==
    [response |-> response, start |-> section, section |-> section,
     state |-> "TRESET", element |-> "ENONE", cnt |-> 0,
     adu |-> NewADUNil, loop |-> "state", ret |-> "run", err |-> ""]

Fail(m, msg) == [m EXCEPT !.ret = "err", !.err = msg]

Panic(m, msg) == [m EXCEPT !.ret = "panic", !.err = msg]

handleSOF(m) ==
    IF m.start \in {"SMBAP", "SRTU"} THEN m
    ELSE IF m.start # "SASCII" THEN Fail(m, "Protocol does not support a Start Of Frame")
    ELSE IF m.cnt >= Len(m.response) \/ Len(m.adu.SOF) < 1
      THEN Panic(m, "index out of range")
    ELSE LET sof == m.response[m.cnt + 1]
             m1 == [m EXCEPT !.adu.SOF = StoreAt(m.adu.SOF, 0, << sof >>),
                             !.cnt = U8(m.cnt + 1),
                             !.section = "SEOF"]
         IN  IF sof # COLON
               THEN Fail([m1 EXCEPT !.section = "SFAIL"], "Frame alignment error (SOF)")
             ELSE m1

handleEOF(m) ==
    IF m.start \in {"SMBAP", "SRTU"} THEN m
    ELSE IF m.start # "SASCII" THEN Fail(m, "Protocol does not support a End Of Frame")
    ELSE IF Len(m.response) < LEOF THEN Panic(m, "slice bounds out of range")
    ELSE LET eof == SubSeq(m.response, Len(m.response) - LEOF + 1, Len(m.response))
             m1 == [m EXCEPT !.adu.EOF = eof, !.section = "SERR"]
         IN  IF eof[1] # CR \/ eof[2] # LF
               THEN Fail([m1 EXCEPT !.section = "SFAIL"], "Frame alignment error (EOF)")
             ELSE m1

\* one iteration of handleMBAP's element loop, with Hdr as NewADU left it
handleMBAP(m) ==
    CASE m.element = "ETRANSID" ->
           IF Len(m.response) - m.cnt < 2 \/ Len(m.adu.Hdr) - m.cnt < 2
             THEN Panic(m, "index out of range")
           ELSE LET v == Uint16At(m.response, m.cnt)
                IN  [m EXCEPT !.adu.TransactionId = v,
                              !.adu.Hdr = StoreAt(m.adu.Hdr, m.cnt, BE16(v)),
                              !.cnt = U8(m.cnt + LTID),
                              !.element = "EPROTOID"]
      [] m.element = "EPROTOID" ->
           IF Len(m.response) - m.cnt < 2 \/ Len(m.adu.Hdr) - m.cnt < 2
             THEN Panic(m, "index out of range")
           ELSE LET v == Uint16At(m.response, m.cnt)
                IN  [m EXCEPT !.adu.ProtocolId = v,
                              !.adu.Hdr = StoreAt(m.adu.Hdr, m.cnt, BE16(v)),
                              !.cnt = U8(m.cnt + LPID),
                              !.element = "ELENGTH"]
      [] m.element = "ELENGTH" ->
           IF Len(m.response) - m.cnt < 2 \/ Len(m.adu.Hdr) - m.cnt < 2
             THEN Panic(m, "index out of range")
           ELSE LET v == Uint16At(m.response, m.cnt)
                IN  [m EXCEPT !.adu.Length = v,
                              !.adu.Hdr = StoreAt(m.adu.Hdr, m.cnt, BE16(v)),
                              !.cnt = U8(m.cnt + LLEN),
                              !.element = "ESLAVEID"]
      [] m.element = "ESLAVEID" ->
           IF m.cnt >= Len(m.response) \/ m.cnt >= Len(m.adu.Hdr)
             THEN Panic(m, "index out of range")
           ELSE LET v == m.response[m.cnt + 1]
                IN  [m EXCEPT !.adu.SlaveId = v,
                              !.adu.Hdr = StoreAt(m.adu.Hdr, m.cnt, << v >>),
                              !.cnt = U8(m.cnt + 1),
                              !.section = "SPDU",
                              !.loop = "section"]
      [] OTHER -> Fail(m, "Unsupported element type (MBAP)")

handleRTU(m) ==
    IF Len(m.response) < LSID + LFNC + LCRC
      THEN Fail(m, "Response header too short")
    ELSE IF m.cnt >= Len(m.response) \/ m.cnt >= 1
      THEN Panic([m EXCEPT !.adu.Hdr = << 0 >>, !.element = "ESLAVEID"], "index out of range")
    ELSE LET v == m.response[m.cnt + 1]
         IN  [m EXCEPT !.adu.Hdr = << v >>,
                       !.adu.SlaveId = v,
                       !.element = "ESLAVEID",
                       !.cnt = U8(m.cnt + 1),
                       !.section = "SPDU"]

handleASCII(m) ==
    IF Len(m.response) < LSOF + LSID + LFNC + LLRC + LEOF
      THEN Fail(m, "Response header too short")
    ELSE IF m.cnt >= Len(m.response) \/ m.cnt >= 1
      THEN Panic([m EXCEPT !.adu.Hdr = << 0 >>, !.element = "ESLAVEID"], "index out of range")
    ELSE LET v == m.response[m.cnt + 1]
         IN  [m EXCEPT !.adu.Hdr = << v >>,
                       !.adu.SlaveId = v,
                       !.element = "ESLAVEID",
                       !.cnt = U8(m.cnt + 1),
                       !.section = "SPDU"]

\* (mutant) handleCRC going on to the RTU section whatever the CRC is
handleCRCUnchecked(m) ==
    IF Len(m.response) < LCRC + LSID + LFNC
      THEN Fail(m, "Response too short")
    ELSE LET n == Len(m.response)
             crcResponse == Uint16At(m.response, n - LCRC)
         IN  [m EXCEPT !.adu.CRC = crcResponse,
                       !.adu.Err = BE16(crcResponse),
                       !.section = "SRTU"]

handleCRC(m) ==
    IF Len(m.response) < LCRC + LSID + LFNC
      THEN Fail(m, "Response too short")
    ELSE LET n == Len(m.response)
             crcResponse == Uint16At(m.response, n - LCRC)
             m1 == [m EXCEPT !.adu.CRC = crcResponse,
                             !.adu.Err = BE16(crcResponse)]
         IN  IF crcResponse = CRC16(SubSeq(m.response, 1, n - LCRC))
               THEN [m1 EXCEPT !.section = "SRTU"]
             ELSE Fail([m1 EXCEPT !.section = "SFAIL"], "Error checking CRC mismatch")

handleLRC(m) == [m EXCEPT !.section = "SASCII"]

\* the for loop of the EDATA element: n more bytes appended to Data
RECURSIVE ReadData(_, _)
ReadData(m, n) ==
    IF n = 0 THEN m
    ELSE IF m.cnt >= Len(m.response) THEN Panic(m, "index out of range")
    ELSE ReadData([m EXCEPT !.adu.Data = Append(m.adu.Data, m.response[m.cnt + 1]),
                            !.cnt = U8(m.cnt + 1)],
                  n - 1)

\* one iteration of handlePDU's element loop
handlePDU(m) ==
    CASE m.element = "EFNCODE" ->
           IF m.cnt >= Len(m.response) THEN Panic(m, "index out of range")
           ELSE LET fncode == m.response[m.cnt + 1]
                    m1 == [m EXCEPT !.adu.FnCode = << fncode >>, !.cnt = U8(m.cnt + 1)]
                IN  IF fncode >= FERR THEN [m1 EXCEPT !.element = "EEXCODE"]
                    ELSE IF fncode \notin {RDCO, RDDI, RDIR, RDHR}
                      THEN Fail(m1, "Unsupported function code")
                    ELSE IF m.start = "SMBAP" THEN [m1 EXCEPT !.element = "EDATA"]
                    ELSE IF m.start = "SRTU" THEN [m1 EXCEPT !.element = "ELENGTH"]
                    ELSE IF m.start = "SASCII" THEN m1
                    ELSE Fail(m1, "Unsupported protocol section code")
      [] m.element = "EEXCODE" ->
           IF m.cnt >= Len(m.response) THEN Panic(m, "index out of range")
           ELSE LET excode == m.response[m.cnt + 1]
                    m1 == [m EXCEPT !.adu.ExceptionCode = excode,
                                    !.adu.Data = << excode >>,
                                    !.cnt = U8(m.cnt + 1)]
                IN  IF excode \notin KnownExCodes
                      THEN Fail(m1, "Unsupported exception code")
                    ELSE [m1 EXCEPT !.adu.Exception = Exception(excode),
                                    !.section = "SDONE",
                                    !.loop = "section"]
      [] m.element = "ELENGTH" ->
           IF m.cnt >= Len(m.response) THEN Panic(m, "index out of range")
           ELSE LET length == m.response[m.cnt + 1]
                    m1 == [m EXCEPT !.adu.Length = length,
                                    !.adu.Data = << U8(length) >>,
                                    !.cnt = U8(m.cnt + 1)]
                IN  IF length <= 0 THEN Fail(m1, "Illegal length")
                    ELSE [m1 EXCEPT !.element = "EDATA"]
      [] m.element = "EDATA" ->
           LET m1 == ReadData(m, U8(m.adu.Length))
           IN  IF m1.ret = "panic" THEN m1
               ELSE [m1 EXCEPT !.section = "SDONE", !.loop = "section"]
      [] OTHER -> Fail(m, "Unsupported element type (PDU)")

\* the switch on state at the top of Recover's outer loop
RecoverState(m) ==
    CASE m.state = "TCOMPLETE" -> [m EXCEPT !.ret = "adu"]
      [] m.state = "TFAILURE" -> Fail(m, "Failure to process response")
      [] m.state = "TRESET" -> [m EXCEPT !.state = "TPROCESS"]
      [] m.state = "TPROCESS" ->
           IF m.start \notin {"SRTU", "SMBAP", "SASCII"}
             THEN Fail(m, "Unsupported protocol section code")
           ELSE [m EXCEPT !.section = CASE m.start = "SRTU" -> "SERR"
                                        [] m.start = "SASCII" -> "SSOF"
                                        [] OTHER -> m.section,
                          !.adu = NewADUNil,
                          !.loop = "section"]

\* the switch on section at the top of Recover's inner loop; entering
\* handleMBAP or handlePDU sets the first element and runs its first iteration
RecoverSection(m) ==
    CASE m.section = "SFAIL" -> [m EXCEPT !.state = "TFAILURE", !.loop = "state"]
      [] m.section = "SDONE" -> [m EXCEPT !.state = "TCOMPLETE", !.loop = "state"]
      [] m.section = "SSOF" -> handleSOF(m)
      [] m.section = "SEOF" -> handleEOF(m)
      [] m.section = "SMBAP" -> handleMBAP([m EXCEPT !.element = "ETRANSID", !.loop = "mbap"])
      [] m.section = "SRTU" -> handleRTU(m)
      [] m.section = "SASCII" -> handleASCII(m)
      [] m.section = "SPDU" -> handlePDU([m EXCEPT !.element = "EFNCODE", !.loop = "pdu"])
      [] m.section = "SERR" ->
           CASE m.start = "SMBAP" ->
                  [m EXCEPT !.element = "ENONE", !.state = "TCOMPLETE", !.loop = "state"]
             [] m.start = "SRTU" -> handleCRC([m EXCEPT !.element = "ECRC"])
             [] m.start = "SASCII" -> handleLRC([m EXCEPT !.element = "ELRC"])
             [] OTHER -> Fail(m, "Unsupported protocol section code")
      [] OTHER -> m

\* one transition of the machine
RecoverStep(m) ==
    CASE m.loop = "state" -> RecoverState(m)
      [] m.loop = "section" -> RecoverSection(m)
      [] m.loop = "mbap" -> handleMBAP(m)
      [] m.loop = "pdu" -> handlePDU(m)

RECURSIVE RecoverRun(_)
RecoverRun(m) == IF m.ret # "run" THEN m ELSE RecoverRun(RecoverStep(m))

\* Recover(response, section) run to its return (or panic)
Recover(response, section) == RecoverRun(RecoverInit(response, section))

(***************************************************************************)
(* Variant decoders                                                        *)
(***************************************************************************)
ModbusTCPDecode(response) == Recover(response, "SMBAP")

RTUDecode(response) == Recover(response, "SRTU")

\* ASCII.Decode stores the hex-decoded sections through tmp, a *ADU that is
\* declared and never assigned: the first store dereferences nil
ASCIIDecode(response) ==
    Panic(RecoverInit(response, "SASCII"), "nil pointer dereference")

Encode(variant, tid, slaveid, pdu) ==
    CASE variant = "MBAP" -> ModbusTCPEncode(tid, slaveid, pdu)
      [] variant = "RTU" -> [tid |-> tid] @@ RTUEncode(slaveid, pdu)
      [] variant = "ASCII" -> [tid |-> tid] @@ ASCIIEncode(slaveid, pdu)

Decode(variant, response) ==
    CASE variant = "MBAP" -> ModbusTCPDecode(response)
      [] variant = "RTU" -> RTUDecode(response)
      [] variant = "ASCII" -> ASCIIDecode(response)

(***************************************************************************)
(* State                                                                   *)
(***************************************************************************)
VARIABLES
    proto,      \* the client's protocol: "MBAP" (ModbusTCP) or "RTU"
    tid,        \* ModbusTCP.TransactionId of the client's codec
    mutex,      \* TransportBase.M: 0 when free, else the thread holding it
    buffer,     \* TransportBase.Response: the chunks written by Listen, oldest first
    pc,         \* where each thread is inside Client.Request
    call,       \* each thread's current call: its inputs, what happened, its result
    calls,      \* how many Request calls each thread has started
    crashed,    \* an unrecovered panic has ended the process
    okDecodes,  \* for each Decode that returned an ADU, the ids of the chunks it was given
    nextId,     \* the id of the next chunk
    codec       \* the codec, translator and counter checks: the function applied and its result

vars == << proto, tid, mutex, buffer, pc, call, calls, crashed, okDecodes, nextId, codec >>

engineVars == << proto, mutex, buffer, pc, call, calls, crashed, okDecodes, nextId >>

(***************************************************************************)
(* Bounds and inputs                                                       *)
(***************************************************************************)
\* Request calls per thread
MaxCalls == 2

Threads == {1, 2}

\* URL.SlaveId values
SlaveIds == {1, 17}

\* URL.Address values: a holding register, and one outside every range
UrlAddresses == {400010, 70000}

\* the frames the device answers with (one Conn.Read returns one of them):
\* an RTU read response, an RTU exception response, an RTU frame with a wrong
\* CRC, an RTU read response whose byte count exceeds the frame, the
\* ModbusTCP response of a two-register read, and a response cut after two
\* bytes
DeviceFrames ==
    { << 17, 1 >>,
      << 17, 1, 1, 5, 75, 149 >>,
      << 17, 131, 2, 52, 193 >>,
      << 17, 1, 1, 5, 0, 0 >>,
      << 17, 1, 5, 86, 224 >>,
      << 0, 1, 0, 0, 0, 7, 1, 3, 4, 0, 10, 0, 20 >> }

NoADU == [nil |-> TRUE]

\* how often one Request call has made each call on the transport and the protocol
NoOps == [connect |-> 0, send |-> 0, listen |-> 0, lock |-> 0, flush |-> 0, decode |-> 0]

NewCall(absolute) ==
    [absolute |-> absolute, connected |-> FALSE, closed |-> FALSE,
     listen |-> "none", rx |-> << >>, decode |-> "none", flushed |-> FALSE,
     ret |-> "none", adu |-> NoADU, ops |-> NoOps]

RECURSIVE Concat(_)
Concat(chunks) ==
    IF chunks = << >> THEN << >> ELSE Head(chunks).bytes \o Concat(Tail(chunks))

\* Transport.Buffer()
Buffer == Concat(buffer)

(***************************************************************************)
(* Client engine: Client.Request, Client.Read and Client.do, one action    *)
(* per call the engine makes on the transport or the protocol.  Every      *)
(* thread runs Request on the same Client.                                 *)
(***************************************************************************)
\* (mutant) the timeout response without its Timeout flag
TimeoutResponseNoFlag == NewADU(NewPDU(FERR))

\* the response do builds when Listen fails with a timeout
TimeoutResponse == [NewADU(NewPDU(FERR)) EXCEPT !.Timeout = TRUE]

\* Request returns (nil, error)
ReturnErr(t) ==
    /\ pc' = [pc EXCEPT ![t] = "done"]
    /\ call' = [call EXCEPT ![t].ret = "err", ![t].adu = NoADU]

\* a caller starts Client.Request(url)
RequestStart(t) ==
    /\ ~crashed
    /\ pc[t] = "idle"
    /\ calls[t] < MaxCalls
    /\ \E absolute \in UrlAddresses :
         call' = [call EXCEPT ![t] = NewCall(absolute)]
    /\ calls' = [calls EXCEPT ![t] = @ + 1]
    /\ pc' = [pc EXCEPT ![t] = "connect"]
    /\ UNCHANGED << proto, tid, mutex, buffer, crashed, okDecodes, nextId, codec >>

\* (mutant) Connect whose failure goes through Read's lock, flush and unlock
ConnectFailFlush(t) ==
    /\ ~crashed
    /\ pc[t] = "connect"
    /\ \E failed \in 0..RETRIES :
         IF failed < RETRIES
           THEN /\ call' = [call EXCEPT ![t].connected = TRUE, ![t].ops.connect = @ + 1]
                /\ pc' = [pc EXCEPT ![t] = "build"]
           ELSE /\ call' = [call EXCEPT ![t].ops.connect = @ + 1]
                /\ pc' = [pc EXCEPT ![t] = "read_lock"]
    /\ UNCHANGED << proto, tid, mutex, buffer, calls, crashed, okDecodes, nextId, codec >>

\* Request: c.Transport.Connect(), which dials up to RETRIES times and fails
\* when every dial failed; on failure Request returns the error
Connect(t) ==
    /\ ~crashed
    /\ pc[t] = "connect"
    /\ \E failed \in 0..RETRIES :
         IF failed < RETRIES
           THEN /\ call' = [call EXCEPT ![t].connected = TRUE, ![t].ops.connect = @ + 1]
                /\ pc' = [pc EXCEPT ![t] = "build"]
           ELSE /\ call' = [call EXCEPT ![t].ret = "err", ![t].adu = NoADU,
                                        ![t].ops.connect = @ + 1]
                /\ pc' = [pc EXCEPT ![t] = "done"]
    /\ UNCHANGED << proto, tid, mutex, buffer, calls, crashed, okDecodes, nextId, codec >>

\* Read: NewRequest, Request.Encode and Protocol.Encode; an error of any of
\* them is returned by Read and then by Request
Build(t) ==
    /\ ~crashed
    /\ pc[t] = "build"
    /\ \E slaveid \in SlaveIds :
         LET req == NewRequest(call[t].absolute, 2)
             reqPdu == RequestEncode(req)
             reqAdu == Encode(proto, tid, slaveid, reqPdu.pdu)
         IN  IF req.err \/ reqPdu.err
               THEN ReturnErr(t) /\ tid' = tid
             ELSE IF reqAdu.err
               THEN ReturnErr(t) /\ tid' = reqAdu.tid
             ELSE /\ tid' = reqAdu.tid
                  /\ pc' = [pc EXCEPT ![t] = "send"]
                  /\ call' = call
    /\ UNCHANGED << proto, mutex, buffer, calls, crashed, okDecodes, nextId, codec >>

\* do: c.Transport.Send(request); on failure do returns the error to Read
Send(t) ==
    /\ ~crashed
    /\ pc[t] = "send"
    /\ \E ok \in BOOLEAN :
         pc' = [pc EXCEPT ![t] = IF ok THEN "listen" ELSE "read_lock"]
    /\ call' = [call EXCEPT ![t].ops.send = @ + 1]
    /\ UNCHANGED << proto, tid, mutex, buffer, calls, crashed, okDecodes, nextId, codec >>

\* do: c.Transport.Listen(nil) up to the return of Conn.Read.  A timeout makes
\* do return the timeout response and nil, which Read returns to Request; any
\* other error makes do return it to Read; received bytes go on to the buffer
ListenRead(t) ==
    /\ ~crashed
    /\ pc[t] = "listen"
    /\ \/ /\ call' = [call EXCEPT ![t].listen = "timeout", ![t].ops.listen = @ + 1,
                                  ![t].adu = [nil |-> FALSE] @@ TimeoutResponse]
          /\ pc' = [pc EXCEPT ![t] = "close"]
       \/ /\ call' = [call EXCEPT ![t].listen = "error", ![t].ops.listen = @ + 1]
          /\ pc' = [pc EXCEPT ![t] = "read_lock"]
       \/ \E frame \in DeviceFrames :
            /\ call' = [call EXCEPT ![t].listen = "frame", ![t].rx = frame,
                                    ![t].ops.listen = @ + 1]
            /\ pc' = [pc EXCEPT ![t] = "listen_lock"]
    /\ UNCHANGED << proto, tid, mutex, buffer, calls, crashed, okDecodes, nextId, codec >>

\* (mutant) TCP.Listen going on to its write without taking the mutex
ListenNoLock(t) ==
    /\ ~crashed
    /\ pc[t] = "listen_lock"
    /\ pc' = [pc EXCEPT ![t] = "listen_write"]
    /\ UNCHANGED << proto, tid, mutex, buffer, call, calls, crashed, okDecodes, nextId, codec >>

\* TCP.Listen: t.M.Lock()
ListenLock(t) ==
    /\ ~crashed
    /\ pc[t] = "listen_lock"
    /\ mutex = 0
    /\ mutex' = t
    /\ pc' = [pc EXCEPT ![t] = "listen_write"]
    /\ UNCHANGED << proto, tid, buffer, call, calls, crashed, okDecodes, nextId, codec >>

\* TCP.Listen: t.Response.Write(response[0:cnt]); t.M.Unlock(); return nil
ListenWrite(t) ==
    /\ ~crashed
    /\ pc[t] = "listen_write"
    /\ buffer' = Append(buffer, [by |-> t, id |-> nextId, bytes |-> call[t].rx])
    /\ nextId' = nextId + 1
    /\ mutex' = 0
    /\ pc' = [pc EXCEPT ![t] = "do_lock"]
    /\ UNCHANGED << proto, tid, call, calls, crashed, okDecodes, codec >>

\* do: c.Transport.Lock()
DoLock(t) ==
    /\ ~crashed
    /\ pc[t] = "do_lock"
    /\ mutex = 0
    /\ mutex' = t
    /\ pc' = [pc EXCEPT ![t] = "do_decode"]
    /\ call' = [call EXCEPT ![t].ops.lock = @ + 1]
    /\ UNCHANGED << proto, tid, buffer, calls, crashed, okDecodes, nextId, codec >>

\* do: c.Protocol.Decode(c.Transport.Buffer()).  On an error do returns it to
\* Read at once (the mutex stays locked); a panic ends the process
DoDecode(t) ==
    /\ ~crashed
    /\ pc[t] = "do_decode"
    /\ LET out == Decode(proto, Buffer)
       IN  CASE out.ret = "adu" ->
                  /\ call' = [call EXCEPT ![t].decode = "adu", ![t].ops.decode = @ + 1,
                                          ![t].adu = [nil |-> FALSE] @@ out.adu]
                  /\ okDecodes' = Append(okDecodes, {buffer[i].id : i \in 1..Len(buffer)})
                  /\ pc' = [pc EXCEPT ![t] = "do_flush"]
                  /\ crashed' = crashed
             [] out.ret = "err" ->
                  /\ call' = [call EXCEPT ![t].decode = "err", ![t].ops.decode = @ + 1]
                  /\ pc' = [pc EXCEPT ![t] = "read_lock"]
                  /\ UNCHANGED << okDecodes, crashed >>
             [] out.ret = "panic" ->
                  /\ call' = [call EXCEPT ![t].decode = "panic", ![t].ops.decode = @ + 1]
                  /\ pc' = [pc EXCEPT ![t] = "panicked"]
                  /\ crashed' = TRUE
                  /\ okDecodes' = okDecodes
    /\ UNCHANGED << proto, tid, mutex, buffer, calls, nextId, codec >>

\* do: c.Transport.Flush()
DoFlush(t) ==
    /\ ~crashed
    /\ pc[t] = "do_flush"
    /\ buffer' = << >>
    /\ pc' = [pc EXCEPT ![t] = "do_unlock"]
    /\ call' = [call EXCEPT ![t].ops.flush = @ + 1]
    /\ UNCHANGED << proto, tid, mutex, calls, crashed, okDecodes, nextId, codec >>

\* do: c.Transport.Unlock(); return response, nil; Read returns it to Request
DoUnlock(t) ==
    /\ ~crashed
    /\ pc[t] = "do_unlock"
    /\ mutex' = 0
    /\ pc' = [pc EXCEPT ![t] = "close"]
    /\ UNCHANGED << proto, tid, buffer, call, calls, crashed, okDecodes, nextId, codec >>

\* Read, after do returned an error: c.Transport.Lock()
ReadLock(t) ==
    /\ ~crashed
    /\ pc[t] = "read_lock"
    /\ mutex = 0
    /\ mutex' = t
    /\ pc' = [pc EXCEPT ![t] = "read_flush"]
    /\ call' = [call EXCEPT ![t].ops.lock = @ + 1]
    /\ UNCHANGED << proto, tid, buffer, calls, crashed, okDecodes, nextId, codec >>

\* Read: c.Transport.Flush()
ReadFlush(t) ==
    /\ ~crashed
    /\ pc[t] = "read_flush"
    /\ buffer' = << >>
    /\ call' = [call EXCEPT ![t].flushed = TRUE, ![t].ops.flush = @ + 1]
    /\ pc' = [pc EXCEPT ![t] = "read_unlock"]
    /\ UNCHANGED << proto, tid, mutex, calls, crashed, okDecodes, nextId, codec >>

\* Read: c.Transport.Unlock(); return nil, error; Request returns nil, error
ReadUnlock(t) ==
    /\ ~crashed
    /\ pc[t] = "read_unlock"
    /\ mutex' = 0
    /\ ReturnErr(t)
    /\ UNCHANGED << proto, tid, buffer, calls, crashed, okDecodes, nextId, codec >>

\* Request, after Read returned a response: c.Close(); return response, nil
Close(t) ==
    /\ ~crashed
    /\ pc[t] = "close"
    /\ call' = [call EXCEPT ![t].closed = TRUE, ![t].ret = "adu"]
    /\ pc' = [pc EXCEPT ![t] = "done"]
    /\ UNCHANGED << proto, tid, mutex, buffer, calls, crashed, okDecodes, nextId, codec >>

\* the caller takes the result and may call again
Return(t) ==
    /\ ~crashed
    /\ pc[t] = "done"
    /\ calls[t] < MaxCalls
    /\ pc' = [pc EXCEPT ![t] = "idle"]
    /\ UNCHANGED << proto, tid, mutex, buffer, call, calls, crashed, okDecodes, nextId, codec >>

\* NewClient builds a ModbusTCP or an RTU client over a TCP transport
Init ==
    /\ proto \in {"MBAP", "RTU"}
    /\ tid = 0
    /\ mutex = 0
    /\ buffer = << >>
    /\ pc = [t \in Threads |-> "idle"]
    /\ call = [t \in Threads |-> NewCall(0)]
    /\ calls = [t \in Threads |-> 0]
    /\ crashed = FALSE
    /\ okDecodes = << >>
    /\ nextId = 1
    /\ codec = [kind |-> "none"]

Next ==
    \E t \in Threads :
        \/ RequestStart(t)
        \/ Connect(t)
        \/ Build(t)
        \/ Send(t)
        \/ ListenRead(t)
        \/ ListenLock(t)
        \/ ListenWrite(t)
        \/ DoLock(t)
        \/ DoDecode(t)
        \/ DoFlush(t)
        \/ DoUnlock(t)
        \/ ReadLock(t)
        \/ ReadFlush(t)
        \/ ReadUnlock(t)
        \/ Close(t)
        \/ Return(t)

Spec == Init /\ [][Next]_vars

(***************************************************************************)
(* Claims about the client engine, checked under Spec                      *)
(***************************************************************************)
\* C1: whenever Decode returned an error inside do, the engine then acquires
\* the transport lock, flushes the buffer, releases the lock and returns the
\* error: the thread that got the decode error is never waiting in Read for
\* a mutex it holds itself, and once its call has returned it has flushed
\* the buffer, does not hold the mutex, and has returned an error.
C1_DecodeErrorFlushedAndReturned ==
    \A t \in Threads :
        call[t].decode = "err" =>
            /\ pc[t] = "read_lock" => mutex # t
            /\ pc[t] = "done" => call[t].flushed /\ mutex # t /\ call[t].ret = "err"

\* C2: every Request call whose Connect succeeded has called Close by the
\* time it returns.
C2_ClosedOnEveryExit ==
    \A t \in Threads : (pc[t] = "done" /\ call[t].connected) => call[t].closed

\* C3: with two concurrent calls on one transport, every Decode is given a
\* buffer holding exactly one response frame, the one its own Listen wrote.
C3_DecodeSeesOneFrame ==
    \A t \in Threads :
        pc[t] = "do_decode" => (Len(buffer) = 1 /\ buffer[1].by = t)

\* C4: the mutex is held only across the decode + flush pair (and the
\* transport's own write in Listen, and the flush of Read's error path),
\* never at any other point of a call, and no received chunk is given to two
\* successful Decode calls.
C4_LockOnlyAcrossDecodeAndFlush ==
    ~crashed =>
        /\ \A t \in Threads :
             mutex = t => pc[t] \in {"listen_write", "do_decode", "do_flush", "do_unlock",
                                     "read_flush", "read_unlock"}
        /\ \A i, j \in 1..Len(okDecodes) :
             i # j => okDecodes[i] \cap okDecodes[j] = {}

\* C5: a Request whose Listen timed out returns nil error and an ADU with
\* Timeout set and function code 0x80, without any Decode, after Close; a
\* Request whose Listen failed otherwise returns an error and no ADU.
C5_TimeoutIsNotAnError ==
    \A t \in Threads :
        pc[t] = "done" =>
            /\ call[t].listen = "timeout" =>
                 /\ call[t].ret = "adu"
                 /\ ~call[t].adu.nil
                 /\ call[t].adu.Timeout
                 /\ call[t].adu.FnCode = << FERR >>
                 /\ call[t].decode = "none"
                 /\ call[t].closed
            /\ call[t].listen = "error" =>
                 /\ call[t].ret = "err"
                 /\ call[t].adu.nil

C5_Witness ==
    /\ \E t \in Threads : pc[t] = "done" /\ call[t].listen = "timeout"
    /\ \E t \in Threads : pc[t] = "done" /\ call[t].listen = "error"

\* C27: no thread calls Transport.Lock while it holds the mutex itself (such
\* a call never returns, and with it the Request), and a thread whose
\* Request or Read call has returned does not hold the mutex, so the next
\* call on the client can acquire it.
C27_NoSelfDeadlock ==
    ~crashed =>
        \A t \in Threads :
            /\ pc[t] \in {"listen_lock", "do_lock", "read_lock"} => mutex # t
            /\ pc[t] \in {"close", "done", "idle"} => mutex # t

\* C30: TCP.Listen appends to the receive buffer only while it holds the
\* transport mutex, and Flush is called only under the mutex: every step
\* that changes the buffer is taken by the thread holding the mutex, so no
\* append happens between the engine's Lock and Unlock around Decode and
\* Flush, and at most one thread is at a point where it changes the buffer.
C30_BufferChangedUnderMutex ==
    /\ [](\A t \in Threads :
            pc[t] \in {"listen_write", "do_decode", "do_flush", "do_unlock",
                       "read_flush", "read_unlock"} => mutex = t)
    /\ [][buffer' # buffer =>
            \E t \in Threads :
                /\ mutex = t
                /\ pc[t] \in {"listen_write", "do_flush", "read_flush"}
                /\ pc'[t] # pc[t]
                /\ \A u \in Threads \ {t} : pc'[u] = pc[u]]_vars

\* one thread is between do's Lock and Unlock, its buffer not yet flushed,
\* while the other thread's Listen has received a frame and waits for the
\* mutex to append it
C30_Witness ==
    \E t, u \in Threads :
        /\ t # u
        /\ mutex = t
        /\ pc[t] = "do_flush"
        /\ buffer # << >>
        /\ pc[u] = "listen_lock"

\* C14: a Request whose Connect failed returns an error and no ADU without
\* having called Send, Listen, Lock, Flush or Decode, and the step in which
\* Connect fails leaves the buffer and the mutex as they were; within one
\* Request call the engine calls Connect, Send and Listen at most once each.
C14_ConnectFailureTouchesNothing ==
    /\ [](\A t \in Threads :
            /\ call[t].ops.connect <= 1
            /\ call[t].ops.send <= 1
            /\ call[t].ops.listen <= 1
            /\ (call[t].ops.connect = 1 /\ ~call[t].connected) =>
                  /\ pc[t] \in {"done", "idle"}
                  /\ call[t].ret = "err"
                  /\ call[t].adu.nil
                  /\ call[t].ops = [NoOps EXCEPT !.connect = 1])
    /\ [][\A t \in Threads :
             (pc[t] = "connect" /\ pc'[t] # "connect" /\ ~call'[t].connected) =>
                 (buffer' = buffer /\ mutex' = mutex /\ pc'[t] = "done")]_vars

\* one call failed to connect while the other call's frame was in the buffer
C14_Witness ==
    \E t \in Threads :
        /\ pc[t] = "done"
        /\ call[t].ops.connect = 1
        /\ ~call[t].connected
        /\ buffer # << >>

(***************************************************************************)
(* Address translator: Relative applied to an absolute address, then       *)
(* Absolute applied to its result                                          *)
(***************************************************************************)
\* how far around each end of each address range the inputs reach
AddrWin == 8

\* the first and last address of the four ranges
RangeEnds == {0, 65535, 100000, 165535, 300000, 365535, 400000, 465535}

AddrInputs == {a \in UNION {(e - AddrWin)..(e + AddrWin) : e \in RangeEnds} : a >= 0}

Legal(a) ==
    \/ a \in 0..65535
    \/ a \in 100000..165535
    \/ a \in 300000..365535
    \/ a \in 400000..465535

\* the engine at rest, for the behaviours that only exercise pure functions
EngineIdle ==
    /\ proto = "MBAP"
    /\ mutex = 0
    /\ buffer = << >>
    /\ pc = [t \in Threads |-> "idle"]
    /\ call = [t \in Threads |-> NewCall(0)]
    /\ calls = [t \in Threads |-> 0]
    /\ crashed = FALSE
    /\ okDecodes = << >>
    /\ nextId = 1

InitAddr ==
    /\ EngineIdle
    /\ tid = 0
    /\ \E a \in AddrInputs :
         codec = [kind |-> "addr", stage |-> "input", absolute |-> a,
                  fncode |-> FERR, relative |-> 0, relErr |-> FALSE,
                  back |-> 0, absErr |-> FALSE]

ApplyRelative ==
    /\ codec.kind = "addr"
    /\ codec.stage = "input"
    /\ LET r == Relative(codec.absolute)
       IN  codec' = [codec EXCEPT !.stage = "relative", !.fncode = r.fncode,
                                  !.relative = r.address, !.relErr = r.err]
    /\ UNCHANGED << engineVars, tid >>

ApplyAbsolute ==
    /\ codec.kind = "addr"
    /\ codec.stage = "relative"
    /\ ~codec.relErr
    /\ LET b == Absolute(codec.fncode, codec.relative)
       IN  codec' = [codec EXCEPT !.stage = "absolute", !.back = b.address, !.absErr = b.err]
    /\ UNCHANGED << engineVars, tid >>

NextAddr == ApplyRelative \/ ApplyAbsolute

SpecAddr == InitAddr /\ [][NextAddr]_vars

\* C10: for every legal absolute address a, Relative(a) succeeds with a
\* relative address in 0..65535, and Absolute of the function code and that
\* relative address returns a without error.
C10_RelativeAbsoluteRoundTrip ==
    (codec.kind = "addr" /\ Legal(codec.absolute)) =>
        /\ codec.stage \in {"relative", "absolute"} =>
             ~codec.relErr /\ codec.relative \in 0..65535
        /\ codec.stage = "absolute" => ~codec.absErr /\ codec.back = codec.absolute

C10_Witness ==
    /\ codec.kind = "addr"
    /\ codec.stage = "absolute"
    /\ codec.absolute = 465535
    /\ codec.fncode = RDHR
    /\ codec.relative = 65535

(***************************************************************************)
(* Transaction id: one ModbusTCP codec on which Encode and Decode are      *)
(* called in any order.  The caller of Decode recovers from its panic.     *)
(***************************************************************************)
\* Encode calls on the one codec: enough to pass the 16-bit wrap
MaxEncodes == 65538

\* the PDU of a two-register read at holding register 10
TidPDU == RequestEncode(NewRequest(400010, 2)).pdu

\* NewModbusTCP leaves TransactionId at its zero value
InitTid ==
    /\ EngineIdle
    /\ tid = 0
    /\ codec = [kind |-> "tid", k |-> 0, op |-> "new", hdr |-> << >>, before |-> 0,
                ret |-> "none"]

\* the k-th m.Encode(pdu): the first LTID bytes of the header it built
TidEncode ==
    /\ codec.kind = "tid"
    /\ codec.k < MaxEncodes
    /\ \E slaveid \in SlaveIds :
         LET e == ModbusTCPEncode(tid, slaveid, TidPDU)
         IN  /\ tid' = e.tid
             /\ codec' = [codec EXCEPT !.k = @ + 1, !.op = "encode",
                                       !.hdr = SubSeq(e.adu.Hdr, 1, LTID),
                                       !.before = tid,
                                       !.ret = IF e.err THEN "err" ELSE "adu"]
    /\ UNCHANGED engineVars

\* m.Decode(response): no statement of Decode or Recover assigns m.TransactionId
TidDecode ==
    /\ codec.kind = "tid"
    /\ \E response \in {f \in DeviceFrames : Len(f) > LMBAP} :
         LET d == ModbusTCPDecode(response)
         IN  codec' = [codec EXCEPT !.op = "decode", !.before = tid, !.ret = d.ret]
    /\ tid' = tid
    /\ UNCHANGED engineVars

NextTid == TidEncode \/ TidDecode

SpecTid == InitTid /\ [][NextTid]_vars

\* C9: the k-th Encode of one ModbusTCP codec writes (k-1) mod 65536, big
\* endian, in the first two header bytes (so the first writes 0), leaves the
\* counter at k mod 65536 (incremented after the write, wrapping from 65535
\* to 0), and Decode leaves the counter as it was.
C9_TransactionIdCounter ==
    codec.kind = "tid" =>
        /\ tid = codec.k % 65536
        /\ codec.op = "encode" =>
             /\ codec.hdr = BE16((codec.k - 1) % 65536)
             /\ codec.hdr = BE16(codec.before)
             /\ tid = (codec.before + 1) % 65536
        /\ codec.op = "decode" => tid = codec.before

\* the 65537th Encode, after the wrap: it writes 0 again
C9_Witness ==
    /\ codec.kind = "tid"
    /\ codec.op = "encode"
    /\ codec.k = 65537
    /\ codec.before = 0
    /\ codec.hdr = << 0, 0 >>
    /\ tid = 1

(***************************************************************************)
(* Codecs: Decode on arbitrary buffers, Recover transition by transition,  *)
(* and Encode followed by Decode                                           *)
(***************************************************************************)
\* longest buffer body (a CRC may follow it)
MaxBody == 4

\* the byte values buffers are made of: read coils, a count, an exception
\* function code
BufferBytes == {1, 2, 131}

Bodies == UNION {[1..n -> BufferBytes] : n \in 0..MaxBody}

\* further buffers: the ModbusTCP response of a two-register read, the same
\* with protocol id 1, with length 1, and with length 9; the RTU response of
\* a read of two coil bytes, one with byte count 0, one whose byte count
\* exceeds it, and RTU exception responses with a known and an unknown code
\* (each RTU body without its CRC)
SampleBodies ==
    { << 0, 1, 0, 0, 0, 7, 1, 3, 4, 0, 10, 0, 20 >>,
      << 0, 1, 0, 1, 0, 7, 1, 3, 4, 0, 10, 0, 20 >>,
      << 0, 1, 0, 0, 0, 1, 1, 3, 4, 0, 10, 0, 20 >>,
      << 0, 1, 0, 0, 0, 9, 1, 3, 4, 0, 10, 0, 20 >>,
      << 17, 1, 2, 205, 107 >>,
      << 17, 1, 0 >>,
      << 17, 3, 4, 0, 10 >>,
      << 17, 131, 2 >>,
      << 17, 131, 7 >>,
      << 17, 131, 0 >>,
      << 17, 131, 9 >>,
      << 17, 5, 2, 0 >>,
      << 0, 1, 0, 0, 0, 3, 1, 5, 0 >>,
      << 58, 49, 49, 48, 53, 69, 65, 13, 10 >> }

Variants == {"MBAP", "RTU", "ASCII"}

Sections == {"SMBAP", "SRTU", "SASCII"}

\* the requests of the round trip: absolute addresses and quantities
TripAddresses == {0, 19, 255, 256, 773, 65535, 100001, 300300, 400010, 465535}

TripQuantities == {1, 2, 125}

\* further PDUs handed to Encode: a report-slave-id request, which has no
\* data, and PDUs shaped like read responses (byte count, then data)
TripPDUs ==
    { NewPDU(RSID),
      [FnCode |-> << RDCO >>, Data |-> << 2, 205, 107 >>],
      [FnCode |-> << RDHR >>, Data |-> << 4, 0, 10, 0, 20 >>] }

NoPDU == [FnCode |-> << >>, Data |-> << >>]

InitCodec ==
    /\ EngineIdle
    /\ tid = 0
    /\ \/ \E body \in Bodies \cup SampleBodies, sealed \in BOOLEAN, v \in Variants :
            codec = [kind |-> "decode", stage |-> "input", variant |-> v,
                     response |-> IF sealed THEN body \o BE16(CRC16(body)) ELSE body,
                     ret |-> "none"]
       \/ \E body \in Bodies \cup SampleBodies, sealed \in BOOLEAN, sec \in Sections :
            codec = [kind |-> "recover", steps |-> 0, progress |-> TRUE,
                     m |-> RecoverInit(IF sealed THEN body \o BE16(CRC16(body)) ELSE body, sec)]
       \/ \E a \in TripAddresses, q \in TripQuantities, v \in Variants, slaveid \in SlaveIds :
            codec = [kind |-> "roundtrip", stage |-> "pdu", variant |-> v, slaveid |-> slaveid,
                     pdu |-> RequestEncode(NewRequest(a, q)).pdu,
                     adu |-> NoADU, bytes |-> << >>, ret |-> "none", out |-> NoPDU]
       \/ \E pdu \in TripPDUs, v \in Variants, slaveid \in SlaveIds :
            codec = [kind |-> "roundtrip", stage |-> "pdu", variant |-> v, slaveid |-> slaveid,
                     pdu |-> pdu,
                     adu |-> NoADU, bytes |-> << >>, ret |-> "none", out |-> NoPDU]

\* v.Decode(response)
DecodeBuffer ==
    /\ codec.kind = "decode"
    /\ codec.stage = "input"
    /\ codec' = [codec EXCEPT !.stage = "done",
                              !.ret = Decode(codec.variant, codec.response).ret]
    /\ UNCHANGED << engineVars, tid >>

\* one transition of Recover; progress records whether it advanced the cursor,
\* or changed the section, element, state or loop, or ended the run
RecoverTransition ==
    /\ codec.kind = "recover"
    /\ codec.m.ret = "run"
    /\ LET m == codec.m
           n == RecoverStep(m)
       IN  codec' = [codec EXCEPT !.m = n,
                                  !.steps = @ + 1,
                                  !.progress = \/ n.ret # "run"
                                               \/ n.cnt > m.cnt
                                               \/ n.section # m.section
                                               \/ n.element # m.element
                                               \/ n.state # m.state
                                               \/ n.loop # m.loop]
    /\ UNCHANGED << engineVars, tid >>

\* v.Encode(p) and its Bytes()
EncodePDU ==
    /\ codec.kind = "roundtrip"
    /\ codec.stage = "pdu"
    /\ LET e == Encode(codec.variant, tid, codec.slaveid, codec.pdu)
       IN  /\ codec' = [codec EXCEPT !.stage = "encoded", !.adu = e.adu,
                                      !.bytes = Bytes(e.adu)]
           /\ tid' = e.tid
    /\ UNCHANGED engineVars

\* v.Decode of the encoded bytes
DecodeBack ==
    /\ codec.kind = "roundtrip"
    /\ codec.stage = "encoded"
    /\ LET d == Decode(codec.variant, codec.bytes)
       IN  codec' = [codec EXCEPT !.stage = "decoded", !.ret = d.ret,
                                  !.out = [FnCode |-> d.adu.FnCode, Data |-> d.adu.Data]]
    /\ UNCHANGED << engineVars, tid >>

NextCodec == DecodeBuffer \/ RecoverTransition \/ EncodePDU \/ DecodeBack

SpecCodec == InitCodec /\ [][NextCodec]_vars

\* C6: for every buffer and every variant, Decode ends by returning an ADU
\* or an error; it never panics.
C6_DecodeNeverFaults ==
    (codec.kind = "decode" /\ codec.stage = "done") => codec.ret \in {"adu", "err"}

\* C7: from every buffer and every start section, every transition of
\* Recover makes progress, and the run ends in COMPLETE (the ADU is
\* returned) or in FAILURE / an error.
C7_RecoverTerminates ==
    codec.kind = "recover" =>
        /\ codec.progress
        /\ codec.steps <= 8 + 2 * Len(codec.m.response)
        /\ codec.m.ret # "run" => codec.m.ret \in {"adu", "err"}

\* C8: for every PDU p of Request.Encode and every variant v,
\* v.Decode(v.Encode(p).Bytes()) succeeds with the function code and data of p.
C8_EncodeDecodeRoundTrip ==
    (codec.kind = "roundtrip" /\ codec.stage = "decoded") =>
        /\ codec.ret = "adu"
        /\ codec.out = codec.pdu

\* C15: Decode rejects every buffer shorter than the variant's minimum (MBAP
\* 8 bytes, RTU 4, ASCII 9), the empty buffer included, with an error and
\* no ADU.
C15_ShortFramesRejected ==
    (codec.kind = "decode" /\ codec.stage = "done") =>
        LET min == CASE codec.variant = "MBAP" -> 8
                     [] codec.variant = "RTU" -> 4
                     [] codec.variant = "ASCII" -> 9
        IN  Len(codec.response) < min => codec.ret = "err"

\* in a run of Recover started for RTU, the CRC of the response matched
CRCMatched(m) ==
    /\ Len(m.response) >= 4
    /\ m.response[Len(m.response) - 1] * 256 + m.response[Len(m.response)]
         = CRC16(SubSeq(m.response, 1, Len(m.response) - 2))

\* the run has entered the RTU, PDU or DONE section, or parsed something of them
PastCRC(m) ==
    \/ m.state = "TPROCESS" /\ m.loop = "section" /\ m.section \in {"SRTU", "SPDU", "SDONE"}
    \/ m.loop = "pdu"
    \/ m.state = "TCOMPLETE"
    \/ m.ret = "adu"
    \/ m.adu.Hdr # << >>
    \/ m.adu.FnCode # << FERR >>
    \/ m.adu.Data # << >>

\* C16: in RTU decode the slave-id and PDU sections are entered only after
\* the CRC computed over all bytes before the last two equalled those two
\* bytes read big-endian; every buffer of at least 4 bytes where they differ
\* ends in an error and no ADU.
C16_CRCFirst ==
    /\ (codec.kind = "recover" /\ codec.m.start = "SRTU") =>
          /\ PastCRC(codec.m) => CRCMatched(codec.m)
          /\ (codec.m.ret # "run" /\ Len(codec.m.response) >= 4 /\ ~CRCMatched(codec.m)) =>
                (codec.m.ret = "err" /\ codec.m.adu.Hdr = << >>)
    /\ (codec.kind = "decode" /\ codec.variant = "RTU" /\ codec.stage = "done") =>
          ((Len(codec.response) >= 4
              /\ Uint16At(codec.response, Len(codec.response) - 2)
                   # CRC16(SubSeq(codec.response, 1, Len(codec.response) - 2)))
             => codec.ret = "err")

\* a four-byte buffer whose last two bytes are not its CRC was refused, and
\* the run never left the error-check section
C16_Witness ==
    /\ codec.kind = "recover"
    /\ codec.m.start = "SRTU"
    /\ codec.m.response = << 1, 1, 2, 2 >>
    /\ codec.m.ret = "err"
    /\ codec.m.section = "SFAIL"

\* C17: MBAP decode parses transaction id, protocol id, length and slave id
\* in this order, and ends in an error and no ADU for every frame whose
\* protocol id is not 0, whose length field is below 2, or whose length
\* field is not the buffer's length minus 6.
C17_MBAPHeaderValidated ==
    (codec.kind = "recover" /\ codec.m.start = "SMBAP") =>
        LET m == codec.m
            r == m.response
        IN  /\ m.adu.ProtocolId # 0 => m.adu.TransactionId = r[1] * 256 + r[2]
            /\ m.adu.Length # 0 => m.adu.ProtocolId = r[3] * 256 + r[4]
            /\ m.adu.SlaveId # 0 => m.adu.Length = r[5] * 256 + r[6]
            /\ (m.ret # "run" /\ Len(r) >= 8) =>
                  ((\/ r[3] * 256 + r[4] # 0
                    \/ r[5] * 256 + r[6] < 2
                    \/ r[5] * 256 + r[6] # Len(r) - 6) => m.ret = "err")

\* C18: for an MBAP read response (function code 0x01..0x04, length field
\* equal to the buffer's length minus 6) the decoder ends with the function
\* code and, as data, exactly the length - 2 bytes after it: the 13-byte
\* response with length 7 and function code 0x03 gives the 5 data bytes
\* 04 00 0A 00 14.
C18_MBAPDataLength ==
    (codec.kind = "recover" /\ codec.m.start = "SMBAP" /\ codec.m.ret # "run") =>
        LET m == codec.m
            r == m.response
        IN  (/\ Len(r) >= 8
             /\ r[3] * 256 + r[4] = 0
             /\ r[5] * 256 + r[6] = Len(r) - 6
             /\ r[8] \in 1..4) =>
                /\ m.ret = "adu"
                /\ m.adu.FnCode = << r[8] >>
                /\ m.adu.Data = SubSeq(r, 9, Len(r))
                /\ Len(m.adu.Data) = m.adu.Length - 2

\* C19: for an RTU read response with a valid CRC and a function code in
\* 0x01..0x04 the decoder reads the byte count, stores it as data[0], appends
\* exactly byte-count further bytes and completes with len(data) equal to the
\* byte count plus one; a frame whose byte count is 0 ends in an error and
\* no ADU.
C19_RTUByteCount ==
    (codec.kind = "recover" /\ codec.m.start = "SRTU" /\ codec.m.ret # "run") =>
        LET m == codec.m
            r == m.response
        IN  (CRCMatched(m) /\ Len(r) >= 5 /\ r[2] \in 1..4) =>
                IF r[3] = 0 THEN m.ret = "err"
                ELSE /\ m.ret = "adu"
                     /\ m.adu.FnCode = << r[2] >>
                     /\ m.adu.Data[1] = r[3]
                     /\ Len(m.adu.Data) = r[3] + 1
                     /\ \A i \in 1..r[3] : m.adu.Data[i + 1] = r[3 + i]

\* C20: every ADU a successful decode returns with bit 7 of the function
\* code set has exactly one data byte, equal to its exception code, carries
\* the table's description of that code as its exception text, and was
\* completed from the exception-code element, no byte count or data read.
C20_ExceptionADU ==
    (codec.kind = "recover" /\ codec.m.ret = "adu" /\ codec.m.adu.FnCode[1] >= 128) =>
        LET adu == codec.m.adu
        IN  /\ Len(adu.Data) = 1
            /\ adu.Data[1] = adu.ExceptionCode
            /\ adu.Exception =
                 CASE adu.ExceptionCode = 1 -> "Illegal function code"
                   [] adu.ExceptionCode = 2 -> "Illegal data address"
                   [] adu.ExceptionCode = 3 -> "Illegal data value"
                   [] adu.ExceptionCode = 4 -> "Server device failure"
                   [] adu.ExceptionCode = 5 -> "Acknowledge"
                   [] adu.ExceptionCode = 6 -> "Server device busy"
                   [] adu.ExceptionCode = 8 -> "Memory parity error"
                   [] adu.ExceptionCode = 10 -> "Gateway path unavailable"
                   [] adu.ExceptionCode = 11 -> "Gateway target device failed to respond"
                   [] OTHER -> "no description"
            /\ codec.m.element = "EEXCODE"
            /\ adu.Length = 0

\* C21: an exception response whose exception code is not one of the table
\* codes 1, 2, 3, 4, 5, 6, 8, 10, 11 (so also code 0, 7 and 9) ends in an
\* unsupported-exception error, and no returned ADU carries such a code.
C21_UnknownExceptionRejected ==
    (codec.kind = "recover" /\ codec.m.ret # "run") =>
        LET m == codec.m
            r == m.response
        IN  /\ (/\ m.start = "SRTU"
                /\ CRCMatched(m)
                /\ Len(r) >= 5
                /\ r[2] >= 128
                /\ r[3] \notin {1, 2, 3, 4, 5, 6, 8, 10, 11}) =>
                   (m.ret = "err" /\ m.err = "Unsupported exception code")
            /\ (m.ret = "adu" /\ m.adu.FnCode[1] >= 128) =>
                   m.adu.ExceptionCode \in {1, 2, 3, 4, 5, 6, 8, 10, 11}

\* C22: in every variant a response whose function code has bit 7 clear and
\* is none of 0x01..0x04 ends in an unsupported-function error and no ADU,
\* with no byte count and no data byte read.
C22_UnknownFunctionRejected ==
    /\ (codec.kind = "recover" /\ codec.m.ret # "run") =>
          LET m == codec.m
              r == m.response
              fn == IF m.start = "SRTU" THEN r[2] ELSE r[8]
          IN  (/\ \/ m.start = "SRTU" /\ CRCMatched(m)
                  \/ m.start = "SMBAP" /\ Len(r) >= 8
               /\ fn < 128
               /\ fn \notin {1, 2, 3, 4}) =>
                  /\ m.ret = "err"
                  /\ m.err = "Unsupported function code"
                  /\ m.adu.Data = << >>
                  /\ m.adu.Length = IF m.start = "SRTU" THEN 0 ELSE r[5] * 256 + r[6]
    /\ (/\ codec.kind = "decode"
        /\ codec.stage = "done"
        /\ codec.variant = "ASCII"
        /\ codec.response = << 58, 49, 49, 48, 53, 69, 65, 13, 10 >>) => codec.ret = "err"

\* C23: every ADU of RTU.Encode serializes as slave id, function code, data
\* and two checksum bytes; Err holds the CRC of slave id, function code and
\* data with the high byte first, adu.CRC is that value, and the CRC
\* recomputed over Bytes() without its last two bytes equals Err read
\* big-endian, so the CRC check of RTU.Decode accepts the frame.
C23_RTUEncodeCRC ==
    (codec.kind = "roundtrip" /\ codec.variant = "RTU" /\ codec.stage # "pdu") =>
        LET adu == codec.adu
            b == codec.bytes
            payload == << codec.slaveid >> \o codec.pdu.FnCode \o codec.pdu.Data
        IN  /\ b = payload \o adu.Err
            /\ Len(adu.Err) = 2
            /\ adu.Err = << CRC16(payload) \div 256, CRC16(payload) % 256 >>
            /\ adu.CRC = CRC16(payload)
            /\ CRC16(SubSeq(b, 1, Len(b) - 2)) = adu.Err[1] * 256 + adu.Err[2]
            /\ handleCRC([RecoverInit(b, "SRTU") EXCEPT !.section = "SERR"]).section = "SRTU"

\* RTU.Encode has framed the read-coils PDU 01 02 CD 6B for slave 17 with
\* the CRC 0x406D
C23_Witness ==
    /\ codec.kind = "roundtrip"
    /\ codec.variant = "RTU"
    /\ codec.stage = "encoded"
    /\ codec.bytes = << 17, 1, 2, 205, 107, 64, 109 >>
    /\ codec.adu.CRC = 64 * 256 + 109

\* C24: every ADU of ModbusTCP.Encode has a 7-byte header carrying protocol
\* id 0, length 2 + len(pdu.Data) and the configured slave id; SOF, Err and
\* EOF are empty; and the length field equals len(Bytes()) - 6.
C24_MBAPEncodeHeader ==
    (codec.kind = "roundtrip" /\ codec.variant = "MBAP" /\ codec.stage # "pdu") =>
        LET adu == codec.adu
        IN  /\ Len(adu.Hdr) = 7
            /\ adu.ProtocolId = 0
            /\ SubSeq(adu.Hdr, 3, 4) = << 0, 0 >>
            /\ adu.Length = 2 + Len(codec.pdu.Data)
            /\ adu.Hdr[5] * 256 + adu.Hdr[6] = 2 + Len(codec.pdu.Data)
            /\ adu.SlaveId = codec.slaveid
            /\ adu.Hdr[7] = codec.slaveid
            /\ adu.SOF = << >>
            /\ adu.Err = << >>
            /\ adu.EOF = << >>
            /\ codec.bytes = adu.Hdr \o codec.pdu.FnCode \o codec.pdu.Data
            /\ adu.Hdr[5] * 256 + adu.Hdr[6] = Len(codec.bytes) - 6

\* ModbusTCP.Encode has framed a read request, whose PDU has 4 data bytes,
\* in 12 bytes with length 6
C24_Witness ==
    /\ codec.kind = "roundtrip"
    /\ codec.variant = "MBAP"
    /\ codec.stage = "encoded"
    /\ Len(codec.pdu.Data) = 4
    /\ Len(codec.bytes) = 12
    /\ codec.adu.Length = 6

\* C25: in every ADU of ASCII.Encode, Err is one LRC byte written as two
\* hexadecimal characters, the two's complement of the 8-bit sum of slave
\* id, function code and data, so the hex-decoded bytes from the slave id
\* through the LRC sum to 0 mod 256.
C25_ASCIIEncodeLRC ==
    (codec.kind = "roundtrip" /\ codec.variant = "ASCII" /\ codec.stage # "pdu") =>
        LET adu == codec.adu
            payload == << codec.slaveid >> \o codec.pdu.FnCode \o codec.pdu.Data
            sum[i \in 0..Len(payload)] ==
                IF i = 0 THEN 0 ELSE (sum[i - 1] + payload[i]) % 256
            wire == toHex(adu.Hdr \o adu.FnCode \o adu.Data \o adu.Err).bin
            total[i \in 0..Len(wire)] ==
                IF i = 0 THEN 0 ELSE (total[i - 1] + wire[i]) % 256
        IN  /\ Len(adu.Err) = 2
            /\ toHex(adu.Err).bin = << (256 - sum[Len(payload)]) % 256 >>
            /\ Len(wire) = Len(payload) + 1
            /\ total[Len(wire)] = 0

\* C26: in every frame of ASCII.Encode SOF is the single byte 0x3A and EOF
\* the two bytes 0x0D 0x0A, neither hex-encoded, while header, function
\* code, data and Err are two upper-case hexadecimal characters per byte.
C26_ASCIIDelimiters ==
    (codec.kind = "roundtrip" /\ codec.variant = "ASCII" /\ codec.stage # "pdu") =>
        LET adu == codec.adu
        IN  /\ adu.SOF = << COLON >>
            /\ adu.EOF = << CR, LF >>
            /\ adu.Hdr = toASCII(<< codec.slaveid >>)
            /\ adu.FnCode = toASCII(codec.pdu.FnCode)
            /\ adu.Data = toASCII(codec.pdu.Data)
            /\ Len(adu.Err) % 2 = 0
            /\ \A i \in 1..Len(adu.Hdr \o adu.FnCode \o adu.Data \o adu.Err) :
                  (adu.Hdr \o adu.FnCode \o adu.Data \o adu.Err)[i] \in (48..57) \cup (65..70)
            /\ codec.bytes = << COLON >> \o adu.Hdr \o adu.FnCode \o adu.Data \o adu.Err
                               \o << CR, LF >>

\* C28: the ADU decoded from a buffer b that RTU decode accepts serializes
\* back to exactly b: len(b) = 1 + 1 + len(data) + 2, no byte of the CRC is
\* stored in data and no byte between the data and the CRC is skipped.
C28_RTUDecodeReserializes ==
    (codec.kind = "recover" /\ codec.m.start = "SRTU" /\ codec.m.ret = "adu") =>
        LET m == codec.m
            r == m.response
        IN  /\ Bytes(m.adu) = r
            /\ Len(r) = 1 + 1 + Len(m.adu.Data) + 2
            /\ m.cnt = Len(r) - LCRC

(***************************************************************************)
(* Requests: Client.Read from the URL's address up to the PDU it hands to  *)
(* the protocol, and Request.Encode on any Request                         *)
(***************************************************************************)
\* URL.Address values: around the ends of the ranges, and two further ones
RequestAddresses == AddrInputs \cup {70000, 400010}

\* URL.Quantity and Request.Quantity values
RequestQuantities == {0, 1, 2, 125, 65535}

\* Request.FnCode values: the read codes, report slave id, and others
RequestFnCodes == {0, RDCO, RDDI, RDHR, RDIR, 5, 16, RSID, FERR, 131, 255}

\* Request.Address values
RequestRelatives == {0, 1, 255, 256, 4660, 65535}

\* Client.Read up to the call of do: the error it returns, and the PDU that
\* reaches Protocol.Encode and Transport.Send (none when it returned before)
ReadBuild(absolute, qty) ==
    LET req == NewRequest(absolute, qty)
        enc == RequestEncode(req)
    IN  IF req.err THEN [err |-> TRUE, sends |-> FALSE, pdu |-> NoPDU]
        ELSE IF enc.err THEN [err |-> TRUE, sends |-> FALSE, pdu |-> NoPDU]
        ELSE [err |-> FALSE, sends |-> TRUE, pdu |-> enc.pdu]

InitRequest ==
    /\ EngineIdle
    /\ tid = 0
    /\ \/ \E a \in RequestAddresses, q \in RequestQuantities :
            codec = [kind |-> "read", stage |-> "input", absolute |-> a, qty |-> q,
                     rel |-> [fncode |-> FERR, address |-> 0, err |-> FALSE],
                     req |-> [err |-> FALSE, FnCode |-> FERR, Address |-> 0, Quantity |-> 0],
                     read |-> [err |-> FALSE, sends |-> FALSE, pdu |-> NoPDU]]
       \/ \E f \in RequestFnCodes, a \in RequestRelatives, q \in RequestQuantities :
            codec = [kind |-> "encode", stage |-> "input",
                     request |-> [err |-> FALSE, FnCode |-> f, Address |-> a, Quantity |-> q],
                     err |-> FALSE, pdu |-> NoPDU]

\* Client.Read(url): Relative inside NewRequest inside Read
ApplyRead ==
    /\ codec.kind = "read"
    /\ codec.stage = "input"
    /\ codec' = [codec EXCEPT !.stage = "returned",
                              !.rel = Relative(codec.absolute),
                              !.req = NewRequest(codec.absolute, codec.qty),
                              !.read = ReadBuild(codec.absolute, codec.qty)]
    /\ UNCHANGED << engineVars, tid >>

\* r.Encode()
ApplyRequestEncode ==
    /\ codec.kind = "encode"
    /\ codec.stage = "input"
    /\ LET e == RequestEncode(codec.request)
       IN  codec' = [codec EXCEPT !.stage = "encoded", !.err = e.err, !.pdu = e.pdu]
    /\ UNCHANGED << engineVars, tid >>

NextRequest == ApplyRead \/ ApplyRequestEncode

SpecRequest == InitRequest /\ [][NextRequest]_vars

\* C11: Relative maps 0..65535 to (0x01, a), 100000..165535 to
\* (0x02, a - 100000), 300000..365535 to (0x04, a - 300000) and
\* 400000..465535 to (0x03, a - 400000); for every other absolute address it
\* returns an error, NewRequest returns an error and no Request, and
\* Client.Read returns an error having sent nothing.
C11_RelativeMapping ==
    (codec.kind = "read" /\ codec.stage = "returned") =>
        LET a == codec.absolute
            Maps(f, base) ==
                /\ codec.rel = [fncode |-> f, address |-> a - base, err |-> FALSE]
                /\ ~codec.req.err
                /\ codec.req.FnCode = f
                /\ codec.req.Address = a - base
        IN  /\ a \in 0..65535 => Maps(1, 0)
            /\ a \in 100000..165535 => Maps(2, 100000)
            /\ a \in 300000..365535 => Maps(4, 300000)
            /\ a \in 400000..465535 => Maps(3, 400000)
            /\ ~Legal(a) =>
                 /\ codec.rel.err
                 /\ codec.req.err
                 /\ codec.read.err
                 /\ ~codec.read.sends
                 /\ codec.read.pdu = NoPDU

\* Read was called with address 70000 and returned an error
C11_Witness ==
    /\ codec.kind = "read"
    /\ codec.stage = "returned"
    /\ codec.absolute = 70000
    /\ codec.read.err

\* C12: Request.Encode gives, for function codes 0x01..0x04, a PDU with that
\* function code and exactly four data bytes, the address then the quantity,
\* each big-endian, for every address and quantity in 0..65535; for 0x11 a
\* PDU with empty data; for every other function code an error.
C12_RequestEncode ==
    (codec.kind = "encode" /\ codec.stage = "encoded") =>
        LET r == codec.request
        IN  /\ r.FnCode \in 1..4 =>
                 /\ ~codec.err
                 /\ codec.pdu.FnCode = << r.FnCode >>
                 /\ Len(codec.pdu.Data) = 4
                 /\ codec.pdu.Data[1] * 256 + codec.pdu.Data[2] = r.Address
                 /\ codec.pdu.Data[3] * 256 + codec.pdu.Data[4] = r.Quantity
                 /\ \A i \in 1..4 : codec.pdu.Data[i] \in 0..255
            /\ r.FnCode = 17 =>
                 /\ ~codec.err
                 /\ codec.pdu.FnCode = << 17 >>
                 /\ codec.pdu.Data = << >>
            /\ r.FnCode \notin (1..4) \cup {17} => codec.err

\* a read of 65535 holding registers at address 0x1234 was encoded
C12_Witness ==
    /\ codec.kind = "encode"
    /\ codec.stage = "encoded"
    /\ codec.request.FnCode = 3
    /\ codec.request.Address = 4660
    /\ codec.request.Quantity = 65535
    /\ codec.pdu.Data = << 18, 52, 255, 255 >>

(***************************************************************************)
(* TCP.Connect, one iteration of its retry loop at a time, called several  *)
(* times on one transport                                                  *)
(***************************************************************************)
\* Connect calls on the one transport
MaxConnects == 3

\* TCP.Timeout in seconds as NewTCP got it; Connect replaces a value <= 0
ConnectTimeouts == {0, 5, 30}

\* the package's default timeout, in seconds
timeout == 10

\* (mutant) the loop iteration with the error test on retry == 0
DialStepLateError(retry, ok) ==
    IF ok THEN [retry |-> 0 - 1, ret |-> "run"]
    ELSE IF retry = 0 THEN [retry |-> retry, ret |-> "err"]
    ELSE [retry |-> retry - 1, ret |-> "run"]

\* one iteration of the loop for a dial that succeeded or not: retry after
\* the iteration and its post statement, and whether Connect returned
DialStep(retry, ok) ==
    IF ok THEN [retry |-> 0 - 1, ret |-> "run"]
    ELSE IF retry = 1 THEN [retry |-> retry, ret |-> "err"]
    ELSE [retry |-> retry - 1, ret |-> "run"]

InitConnect ==
    /\ EngineIdle
    /\ tid = 0
    /\ \E to \in ConnectTimeouts :
         codec = [kind |-> "connect", at |-> "idle", Timeout |-> to, n |-> 0,
                  retry |-> 0, dials |-> << >>, ret |-> "none", conn |-> FALSE]

\* t.Connect() is called: the timeout is defaulted, the loop starts
ConnectCall ==
    /\ codec.kind = "connect"
    /\ codec.at = "idle"
    /\ codec.n < MaxConnects
    /\ codec' = [codec EXCEPT !.at = "loop", !.n = @ + 1,
                              !.Timeout = IF @ <= 0 THEN timeout ELSE @,
                              !.retry = RETRIES, !.dials = << >>, !.ret = "run"]
    /\ UNCHANGED << engineVars, tid >>

\* one iteration: dialer.Dial returns a connection or an error
ConnectDial ==
    /\ codec.kind = "connect"
    /\ codec.at = "loop"
    /\ codec.retry > 0
    /\ \E ok \in BOOLEAN :
         LET d == DialStep(codec.retry, ok)
         IN  codec' = [codec EXCEPT !.retry = d.retry, !.ret = d.ret,
                                    !.dials = Append(@, ok), !.conn = ok,
                                    !.at = IF d.ret = "err" THEN "idle" ELSE "loop"]
    /\ UNCHANGED << engineVars, tid >>

\* the loop condition fails: return nil
ConnectReturn ==
    /\ codec.kind = "connect"
    /\ codec.at = "loop"
    /\ codec.retry <= 0
    /\ codec' = [codec EXCEPT !.at = "idle", !.ret = "nil"]
    /\ UNCHANGED << engineVars, tid >>

NextConnect == ConnectCall \/ ConnectDial \/ ConnectReturn

SpecConnect == InitConnect /\ [][NextConnect]_vars

\* C13: TCP.Connect dials at most 5 times, stops at the first dial that
\* succeeds and returns nil, returns an error exactly when 5 dials failed,
\* and always terminates: while it runs, its next step is always possible.
C13_ConnectRetries ==
    codec.kind = "connect" =>
        LET d == codec.dials
            failed == {i \in 1..Len(d) : ~d[i]}
        IN  /\ Len(d) <= 5
            /\ \A i \in 1..Len(d) : d[i] => i = Len(d)
            /\ codec.ret = "nil" => (Len(d) >= 1 /\ d[Len(d)] /\ codec.conn)
            /\ codec.ret = "err" <=> (Len(d) = 5 /\ failed = 1..5)
            /\ codec.at = "loop" => (ENABLED ConnectDial \/ ENABLED ConnectReturn)
            /\ codec.at = "loop" => codec.Timeout > 0

\* Connect returned an error after five failed dials, and, on another call,
\* nil after four failed dials and one that succeeded
C13_Witness ==
    /\ codec.kind = "connect"
    /\ codec.at = "idle"
    /\ codec.n = 2
    /\ codec.ret = "nil"
    /\ codec.dials = << FALSE, FALSE, FALSE, FALSE, TRUE >>

(***************************************************************************)
(* Cursor: Recover on well-formed RTU read responses of every length the   *)
(* byte count allows, up to 260 bytes                                      *)
(***************************************************************************)
\* byte counts: the smallest ones, and those around the largest offset an
\* 8-bit cursor can hold
ByteCounts == {1, 2, 3, 250, 251, 252, 253, 254, 255}

\* a read response: slave id, function code, byte count, that many data
\* bytes (no two of them 256 apart are equal, and the last ones differ from
\* the first bytes of the frame), and the CRC of all of it
ReadResponse(slaveid, fncode, count) ==
    LET body == << slaveid, fncode, count >> \o [i \in 1..count |-> (i * 7 + 3) % 251]
    IN  body \o BE16(CRC16(body))

InitCursor ==
    /\ EngineIdle
    /\ tid = 0
    /\ \E slaveid \in SlaveIds, fncode \in {RDCO, RDDI, RDHR, RDIR}, count \in ByteCounts :
         codec = [kind |-> "recover", steps |-> 0, progress |-> TRUE,
                  m |-> RecoverInit(ReadResponse(slaveid, fncode, count), "SRTU")]

NextCursor == RecoverTransition

SpecCursor == InitCursor /\ [][NextCursor]_vars

\* C29: the cursor of a Recover run never wraps around: for every RTU read
\* response with a byte count in 1..255 (up to 260 bytes) the run returns an
\* ADU whose data byte i is the input byte at offset 3 + i, and ends with
\* the cursor on the CRC, behind every offset it has read.
C29_CursorNeverWraps ==
    (codec.kind = "recover" /\ codec.m.start = "SRTU" /\ codec.m.ret # "run") =>
        LET m == codec.m
            r == m.response
        IN  (/\ CRCMatched(m)
             /\ r[2] \in 1..4
             /\ r[3] \in 1..255
             /\ Len(r) = r[3] + 5) =>
                /\ m.ret = "adu"
                /\ Len(m.adu.Data) = r[3] + 1
                /\ \A i \in 0..(r[3] - 1) : m.adu.Data[i + 2] = r[3 + i + 1]
                /\ m.cnt = Len(r) - LCRC

=============================================================================
